---- MODULE Spec2Model ----
(***************************************************************************)
(* PhishGuard-AI (src/app.py): a Flask application with an e-mail scan     *)
(* endpoint ("/"), a quiz game ("/game", "/reset-game") and two listings   *)
(* ("/history", "/scores").                                                *)
(*                                                                         *)
(* Strings are sequences of one-character strings, so that the regular     *)
(* expression substitutions of clean_text and the str.replace calls of     *)
(* home() are computed character by character.                             *)
(***************************************************************************)
EXTENDS Integers, Sequences, FiniteSets, TLC

VARIABLES
    session,      \* session[s]: the Flask session of browser s (a dict)
    scans,        \* table scans, rows in id order
    game_scores,  \* table game_scores, rows in id order
    last,         \* the last request handled and the response it got
    submitted,    \* history: the email texts POSTed to "/" so far, in order
    posts,        \* history: posts[s], graded POSTs of s since its session was last empty
    hits,         \* history: hits[s], those of them with choice = correct
    cleared,      \* history: cleared[s], /reset-game was the last game-side request of s
    arg,          \* clean_text harness: the input string
    once,         \* clean_text harness: clean_text(arg)
    twice,        \* clean_text harness: clean_text(clean_text(arg))
    stage         \* clean_text harness: "in", "once", "twice"

vars == <<session, scans, game_scores, last, submitted, posts, hits, cleared,
          arg, once, twice, stage>>

appVars == <<session, scans, game_scores, last, submitted, posts, hits, cleared>>
fnVars == <<arg, once, twice, stage>>

---------------------------------------------------------------------------
(* Bounds *)

MaxLen == 6          \* longest input string of the clean_text harness
MaxPieces == 2       \* pieces concatenated into one submitted email text
MaxRows == 2         \* rows of both tables together, whole application
MaxGameRows == 2     \* rows of table game_scores, game routes alone
MaxScore == 7        \* largest counter of a session the level run starts from
MaxLevelRows == 1    \* rows of table game_scores, level run

---------------------------------------------------------------------------
(* Characters and strings *)

Lowers == <<"a","b","c","d","e","f","g","h","i","j","k","l","m",
            "n","o","p","q","r","s","t","u","v","w","x","y","z">>
Uppers == <<"A","B","C","D","E","F","G","H","I","J","K","L","M",
            "N","O","P","Q","R","S","T","U","V","W","X","Y","Z">>

Range(f) == {f[i] : i \in DOMAIN f}

LowerLetters == Range(Lowers)
UpperLetters == Range(Uppers)
Whitespace == {" ", "\n", "\t"}

IsLower(c) == c \in LowerLetters
IsUpper(c) == c \in UpperLetters
IsSpace(c) == c \in Whitespace

ToLower == [c \in UpperLetters |-> Lowers[CHOOSE i \in DOMAIN Uppers : Uppers[i] = c]]
ToUpper == [c \in LowerLetters |-> Uppers[CHOOSE i \in DOMAIN Lowers : Lowers[i] = c]]

\* str.lower() and str.upper() on one character
LowerChar(c) == IF IsUpper(c) THEN ToLower[c] ELSE c
UpperChar(c) == IF IsLower(c) THEN ToUpper[c] ELSE c

\* str.upper()
Upper(s) == [i \in 1..Len(s) |-> UpperChar(s[i])]

\* str.lower()
Lower(s) == [i \in 1..Len(s) |-> LowerChar(s[i])]

\* str.capitalize(): first character upper-cased, the rest lower-cased
Capitalize(s) ==
    [i \in 1..Len(s) |-> IF i = 1 THEN UpperChar(s[i]) ELSE LowerChar(s[i])]

\* s[i:] starts with w
StartsAt(s, i, w) ==
    /\ i + Len(w) - 1 <= Len(s)
    /\ \A k \in 1..Len(w) : s[i + k - 1] = w[k]

Drop(s, n) == SubSeq(s, n + 1, Len(s))

RECURSIVE Concat(_)
Concat(ss) == IF ss = <<>> THEN <<>> ELSE Head(ss) \o Concat(Tail(ss))

RECURSIVE Reverse(_)
Reverse(s) == IF s = <<>> THEN <<>> ELSE Reverse(Tail(s)) \o <<Head(s)>>

\* all sequences over S of length at most n
SeqsUpTo(S, n) == UNION {[1..k -> S] : k \in 0..n}

---------------------------------------------------------------------------
(* clean_text, src/app.py:51-56 *)

Http == <<"h","t","t","p">>

\* length of the maximal run of non-whitespace characters starting at s[i]
RECURSIVE NonSpaceRun(_, _)
NonSpaceRun(s, i) ==
    IF i > Len(s) \/ IsSpace(s[i]) THEN 0 ELSE 1 + NonSpaceRun(s, i + 1)

\* re.sub(r"http\S+", "", s): leftmost, greedy, non-overlapping matches of
\* "http" followed by at least one non-whitespace character are deleted
RECURSIVE StripUrls(_)
StripUrls(s) ==
    IF s = <<>> THEN <<>>
    ELSE IF StartsAt(s, 1, Http) /\ NonSpaceRun(s, 5) >= 1
         THEN StripUrls(Drop(s, 4 + NonSpaceRun(s, 5)))
         ELSE <<Head(s)>> \o StripUrls(Tail(s))

\* re.sub(r"[^a-z\s]", "", s)
KeepLettersAndSpace(s) == SelectSeq(s, LAMBDA c : IsLower(c) \/ IsSpace(c))

\* re.sub(r"\s+", " ", s): every maximal whitespace run becomes one space
RECURSIVE CollapseSpace(_)
CollapseSpace(s) ==
    IF s = <<>> THEN <<>>
    ELSE IF IsSpace(Head(s))
         THEN IF Len(s) >= 2 /\ IsSpace(s[2])
              THEN CollapseSpace(Tail(s))
              ELSE <<" ">> \o CollapseSpace(Tail(s))
         ELSE <<Head(s)>> \o CollapseSpace(Tail(s))

\* str.strip()
RECURSIVE LStrip(_)
LStrip(s) == IF s # <<>> /\ IsSpace(Head(s)) THEN LStrip(Tail(s)) ELSE s

RECURSIVE RStrip(_)
RStrip(s) ==
    IF s # <<>> /\ IsSpace(s[Len(s)]) THEN RStrip(SubSeq(s, 1, Len(s) - 1)) ELSE s

Strip(s) == RStrip(LStrip(s))

\* the whitespace runs collapsed before the other characters are removed
clean_textCollapseFirst(text) ==
    Strip(KeepLettersAndSpace(CollapseSpace(StripUrls(Lower(text)))))

clean_text(text) ==
    Strip(CollapseSpace(KeepLettersAndSpace(StripUrls(Lower(text)))))

---------------------------------------------------------------------------
(* Harness for clean_text: the input is any string over NormAlphabet of   *)
(* length at most MaxLen; the function is applied once, then again to its *)
(* own result.                                                            *)

NormAlphabet == {"h", "t", "p", "T", "1", " "}

NormInit ==
    /\ arg \in SeqsUpTo(NormAlphabet, MaxLen)
    /\ once = <<>>
    /\ twice = <<>>
    /\ stage = "in"

CleanOnce ==
    /\ stage = "in"
    /\ once' = clean_text(arg)
    /\ stage' = "once"
    /\ UNCHANGED <<arg, twice>>

CleanTwice ==
    /\ stage = "once"
    /\ twice' = clean_text(once)
    /\ stage' = "twice"
    /\ UNCHANGED <<arg, once>>

---------------------------------------------------------------------------
(* The application state *)

Sessions == {"s1", "s2"}
Labels == {"FRAUD", "SAFE"}

\* a session without keys: a new browser, or the session after session.clear()
EmptySession == [k \in {} |-> 0]

\* request.form[key]: <<value>>, or <<>> when the key is not in the form and
\* the lookup raises BadRequestKeyError (a 400 response)
FormValue(form, key) ==
    IF key \in DOMAIN form THEN <<form[key]>> ELSE <<>>

Restrict(f, D) == [k \in D |-> f[k]]

BadRequest(s, route, form) ==
    [s |-> s, route |-> route, method |-> "POST", form |-> form, status |-> 400]

\* cursor.execute("INSERT ..."): AUTOINCREMENT gives the next id
Insert(table, row) ==
    Append(table, [id |-> Len(table) + 1, row |-> row])

\* SELECT ... ORDER BY id (ascending)
RECURSIVE OrderByIdAsc(_)
OrderByIdAsc(rows) ==
    IF rows = {} THEN <<>>
    ELSE LET low == CHOOSE r \in rows : \A q \in rows : r.id <= q.id
         IN  <<low.row>> \o OrderByIdAsc(rows \ {low})

\* SELECT ... ORDER BY id DESC
RECURSIVE OrderByIdDesc(_)
OrderByIdDesc(rows) ==
    IF rows = {} THEN <<>>
    ELSE LET top == CHOOSE r \in rows : \A q \in rows : q.id <= r.id
         IN  <<top.row>> \o OrderByIdDesc(rows \ {top})

---------------------------------------------------------------------------
(* home(), src/app.py:125-172 *)

suspicious_words ==
    << <<"u","r","g","e","n","t">>,
       <<"v","e","r","i","f","y">>,
       <<"c","l","i","c","k">>,
       <<"p","a","s","s","w","o","r","d">>,
       <<"b","a","n","k">>,
       <<"a","c","c","o","u","n","t">>,
       <<"l","o","g","i","n">>,
       <<"c","o","n","f","i","r","m">> >>

SpanOpen ==
    <<"<","s","p","a","n"," ","c","l","a","s","s","=","'",
      "h","i","g","h","l","i","g","h","t","'",">">>
SpanClose == <<"<","/","s","p","a","n",">">>

\* f"<span class='highlight'>{word}</span>"
Wrap(word) == SpanOpen \o word \o SpanClose

\* the positions from i on at which old occurs in s
Occurrences(s, i, old) ==
    {j \in i..(Len(s) - Len(old) + 1) : StartsAt(s, j, old)}

\* str.replace(old, new) from position i on: the text up to the leftmost
\* occurrence of old is kept, the occurrence is replaced, and the search
\* goes on behind it
RECURSIVE ReplaceFrom(_, _, _, _)
ReplaceFrom(s, i, old, new) ==
    IF Occurrences(s, i, old) = {} THEN SubSeq(s, i, Len(s))
    ELSE LET j == CHOOSE m \in Occurrences(s, i, old) :
                      \A n \in Occurrences(s, i, old) : m <= n
         IN  SubSeq(s, i, j - 1) \o new \o ReplaceFrom(s, j + Len(old), old, new)

\* str.replace(old, new): leftmost non-overlapping occurrences
Replace(s, old, new) == ReplaceFrom(s, 1, old, new)

\* the loop body with word.upper() in place of word.capitalize()
HighlightWordUpper(text, word) ==
    Replace(Replace(text, word, Wrap(word)), Upper(word), Wrap(Upper(word)))

\* the body of the for loop, lines 157-164
HighlightWord(text, word) ==
    Replace(Replace(text, word, Wrap(word)),
            Capitalize(word), Wrap(Capitalize(word)))

RECURSIVE HighlightAll(_, _)
HighlightAll(text, words) ==
    IF words = <<>> THEN text
    ELSE HighlightAll(HighlightWord(text, Head(words)), Tail(words))

\* lines 153-164
Highlight(email_text, result) ==
    IF result = "FRAUD" THEN HighlightAll(email_text, suspicious_words)
    ELSE email_text

\* model.predict / predict_proba of the pickled scikit-learn pipeline: the
\* label and the rounded percentage are whatever the fitted model returns
\* for the cleaned text, here any label and any of two percentages
Confidences == {50, 100}

\* request.form.get("email", ""): a missing field reads as the empty string
EmailFieldOrEmpty(form) ==
    IF "email" \in DOMAIN form THEN <<form["email"]>> ELSE << <<>> >>

\* line 133: request.form["email"]
EmailField(form) == FormValue(form, "email")

HomeGet(s) ==
    /\ last' = [s |-> s, route |-> "home", method |-> "GET", status |-> 200,
                result |-> "None", email_text |-> <<>>, highlighted_text |-> <<>>]
    /\ UNCHANGED <<session, scans, game_scores, submitted, posts, hits, cleared>>
    /\ UNCHANGED fnVars

\* POST "/" with a form whose email field, when present, is one of texts
HomePost(s, texts) ==
    \E form \in {Restrict([email |-> t], D) : t \in texts, D \in SUBSET {"email"}},
       result \in Labels, confidence \in Confidences :
        /\ IF EmailField(form) # <<>>
           THEN LET email_text == EmailField(form)[1]
                    cleaned_email == clean_text(email_text)
                IN  /\ scans' = Insert(scans, [email |-> email_text,
                                               result |-> result,
                                               confidence |-> confidence])
                    /\ submitted' = Append(submitted, email_text)
                    /\ last' = [s |-> s, route |-> "home", method |-> "POST",
                                form |-> form, status |-> 200,
                                cleaned |-> cleaned_email,
                                result |-> result, confidence |-> confidence,
                                email_text |-> email_text,
                                highlighted_text |-> Highlight(email_text, result)]
           ELSE /\ last' = BadRequest(s, "home", form)
                /\ UNCHANGED <<scans, submitted>>
        /\ UNCHANGED <<session, game_scores, posts, hits, cleared>>
        /\ UNCHANGED fnVars

\* history(), src/app.py:259-267
History(s) ==
    /\ last' = [s |-> s, route |-> "history", method |-> "GET", status |-> 200,
                scans |-> OrderByIdDesc(Range(scans))]
    /\ UNCHANGED <<session, scans, game_scores, submitted, posts, hits, cleared>>
    /\ UNCHANGED fnVars

---------------------------------------------------------------------------
(* game(), src/app.py:177-248, and reset_game(), src/app.py:250-253 *)

QUIZ_QUESTIONS ==
    << [text |-> "Urgent! Verify your account immediately.",
        answer |-> "FRAUD", reason |-> "Creates urgency and asks for action."],
       [text |-> "Meeting scheduled tomorrow at 3 PM.",
        answer |-> "SAFE", reason |-> "Normal internal communication."],
       [text |-> "Click here to reset your password.",
        answer |-> "FRAUD", reason |-> "Suspicious link asking for credentials."],
       [text |-> "Invoice attached. Please review.",
        answer |-> "SAFE", reason |-> "Common business email."] >>

GameFields == {"choice", "correct", "reason"}

\* what a client sends as reason: the hidden field of the rendered form
Reasons == {QUIZ_QUESTIONS[1].reason}

\* the forms of a POST to /game: any subset of the three fields
GameForms ==
    {Restrict(f, D) :
        f \in [choice : Labels, correct : Labels, reason : Reasons],
        D \in SUBSET GameFields}

\* the counters set to zero without the test of line 203
InitSessionAlways(sess) == [score |-> 0, total |-> 0]

\* lines 203-205
InitSession(sess) ==
    IF "score" \notin DOMAIN sess THEN [score |-> 0, total |-> 0] ELSE sess

\* total counted in the else branch only
GradeTotalOnMiss(sess, form) ==
    IF FormValue(form, "choice")[1] = FormValue(form, "correct")[1]
    THEN [sess EXCEPT !["score"] = @ + 1]
    ELSE [sess EXCEPT !["total"] = @ + 1]

\* score counted whatever the choice
GradeAlwaysHit(sess, form) ==
    [sess EXCEPT !["total"] = @ + 1, !["score"] = @ + 1]

\* lines 211-218: the counters after grading
Grade(sess, form) ==
    LET user_choice == FormValue(form, "choice")[1]
        correct_answer == FormValue(form, "correct")[1]
        counted == [sess EXCEPT !["total"] = @ + 1]
    IN  IF user_choice = correct_answer
        THEN [counted EXCEPT !["score"] = @ + 1]
        ELSE counted

\* lines 211-221: the feedback line
Feedback(form) ==
    LET user_choice == FormValue(form, "choice")[1]
        correct_answer == FormValue(form, "correct")[1]
        reason == FormValue(form, "reason")[1]
    IN  IF user_choice = correct_answer
        THEN <<"Correct! ", reason>>
        ELSE <<"Wrong! ", reason>>

\* the thresholds compared with <= in place of <
LevelInclusive(score) ==
    IF score <= 3 THEN "Beginner"
    ELSE IF score <= 6 THEN "Intermediate"
    ELSE "Expert"

\* lines 223-230
Level(score) ==
    IF score < 3 THEN "Beginner"
    ELSE IF score < 6 THEN "Intermediate"
    ELSE "Expert"

\* the row written with the counters swapped
GameRowSwapped(sess) ==
    [score |-> sess["total"], total |-> sess["score"], level |-> Level(sess["score"])]

\* lines 234-237: the row written to game_scores
GameRow(sess) ==
    [score |-> sess["score"], total |-> sess["total"], level |-> Level(sess["score"])]

\* lines 241-248: the rendered page
GamePage(s, method, form, q, feedback, sess) ==
    [s |-> s, route |-> "game", method |-> method, form |-> form, status |-> 200,
     question |-> QUIZ_QUESTIONS[q], feedback |-> feedback,
     score |-> sess["score"], total |-> sess["total"],
     level |-> Level(sess["score"])]

GameGet(s) ==
    \E q \in DOMAIN QUIZ_QUESTIONS :
        LET sess == InitSession(session[s])
        IN  /\ session' = [session EXCEPT ![s] = sess]
            /\ game_scores' = Insert(game_scores, GameRow(sess))
            /\ last' = GamePage(s, "GET", EmptySession, q, <<>>, sess)
            /\ cleared' = [cleared EXCEPT ![s] = FALSE]
            /\ UNCHANGED <<scans, submitted, posts, hits>>
            /\ UNCHANGED fnVars

GamePost(s) ==
    \E form \in GameForms :
        LET sess == InitSession(session[s])
        IN  /\ IF \A key \in GameFields : FormValue(form, key) # <<>>
               THEN \E q \in DOMAIN QUIZ_QUESTIONS :
                    LET graded == Grade(sess, form)
                    IN  /\ session' = [session EXCEPT ![s] = graded]
                        /\ game_scores' = Insert(game_scores, GameRow(graded))
                        /\ last' = GamePage(s, "POST", form, q, Feedback(form), graded)
                        /\ posts' = [posts EXCEPT ![s] = @ + 1]
                        /\ hits' = [hits EXCEPT ![s] =
                                      @ + (IF form["choice"] = form["correct"] THEN 1 ELSE 0)]
               ELSE \* BadRequestKeyError at line 211, 212 or 213; the session
                    \* initialised at lines 204-205 is saved with the response
                    /\ session' = [session EXCEPT ![s] = sess]
                    /\ last' = BadRequest(s, "game", form)
                    /\ UNCHANGED <<game_scores, posts, hits>>
            /\ cleared' = [cleared EXCEPT ![s] = FALSE]
            /\ UNCHANGED <<scans, submitted>>
            /\ UNCHANGED fnVars

\* a reset that zeroes the score and keeps the rest of the session
ResetGameScoreOnly(s) ==
    /\ session' = [session EXCEPT ![s] =
                      IF "score" \in DOMAIN @ THEN [@ EXCEPT !["score"] = 0] ELSE @]
    /\ last' = [s |-> s, route |-> "reset-game", method |-> "GET", status |-> 302]
    /\ cleared' = [cleared EXCEPT ![s] = TRUE]
    /\ posts' = [posts EXCEPT ![s] = 0]
    /\ hits' = [hits EXCEPT ![s] = 0]
    /\ UNCHANGED <<scans, game_scores, submitted>>
    /\ UNCHANGED fnVars

\* reset_game(), src/app.py:250-253
ResetGame(s) ==
    /\ session' = [session EXCEPT ![s] = EmptySession]
    /\ last' = [s |-> s, route |-> "reset-game", method |-> "GET", status |-> 302]
    /\ cleared' = [cleared EXCEPT ![s] = TRUE]
    /\ posts' = [posts EXCEPT ![s] = 0]
    /\ hits' = [hits EXCEPT ![s] = 0]
    /\ UNCHANGED <<scans, game_scores, submitted>>
    /\ UNCHANGED fnVars

\* scores(), src/app.py:273-281
Scores(s) ==
    /\ last' = [s |-> s, route |-> "scores", method |-> "GET", status |-> 200,
                scores |-> OrderByIdDesc(Range(game_scores))]
    /\ UNCHANGED <<session, scans, game_scores, submitted, posts, hits, cleared>>
    /\ UNCHANGED fnVars

---------------------------------------------------------------------------
(* Specifications *)

\* the harness variables while the application runs
FnIdle == arg = <<>> /\ once = <<>> /\ twice = <<>> /\ stage = "idle"

\* after load_model() and init_db() on a new database, before any request
AppInit ==
    /\ session = [s \in Sessions |-> EmptySession]
    /\ scans = <<>>
    /\ game_scores = <<>>
    /\ last = [s |-> "none", route |-> "none", method |-> "none", status |-> 0]
    /\ submitted = <<>>
    /\ posts = [s \in Sessions |-> 0]
    /\ hits = [s \in Sessions |-> 0]
    /\ cleared = [s \in Sessions |-> FALSE]

\* the email texts submitted in the runs of the whole application
Emails == { <<>>, <<"B","a","n","k"," ","1">> }

Init == AppInit /\ FnIdle

\* the whole application, every route, used from one browser, until the
\* tables hold MaxRows rows
RowsWithin == Len(scans') + Len(game_scores') <= MaxRows

Next ==
    \/ \E s \in {"s1"} : HomeGet(s) /\ RowsWithin
    \/ \E s \in {"s1"} : HomePost(s, Emails) /\ RowsWithin
    \/ \E s \in {"s1"} : History(s) /\ RowsWithin
    \/ \E s \in {"s1"} : GameGet(s) /\ RowsWithin
    \/ \E s \in {"s1"} : GamePost(s) /\ RowsWithin
    \/ \E s \in {"s1"} : ResetGame(s) /\ RowsWithin
    \/ \E s \in {"s1"} : Scores(s) /\ RowsWithin

Spec == Init /\ [][Next]_vars

\* the game routes alone, used from both browsers, until game_scores holds
\* MaxGameRows rows
GameRowsWithin == Len(game_scores') <= MaxGameRows

NextGame ==
    \/ \E s \in Sessions : GameGet(s) /\ GameRowsWithin
    \/ \E s \in Sessions : GamePost(s) /\ GameRowsWithin
    \/ \E s \in Sessions : ResetGame(s) /\ GameRowsWithin
    \/ \E s \in Sessions : Scores(s) /\ GameRowsWithin

SpecGame == Init /\ [][NextGame]_vars

\* the game routes from a session that has already played: browser "s1"
\* holds any counters 0 <= score <= total <= MaxScore
InitLevel ==
    /\ \E total \in 0..MaxScore, score \in 0..MaxScore :
        /\ score <= total
        /\ session = [s \in Sessions |->
                        IF s = "s1" THEN [score |-> score, total |-> total]
                        ELSE EmptySession]
        /\ posts = [s \in Sessions |-> IF s = "s1" THEN total ELSE 0]
        /\ hits = [s \in Sessions |-> IF s = "s1" THEN score ELSE 0]
    /\ scans = <<>>
    /\ game_scores = <<>>
    /\ last = [s |-> "none", route |-> "none", method |-> "none", status |-> 0]
    /\ submitted = <<>>
    /\ cleared = [s \in Sessions |-> FALSE]
    /\ FnIdle

LevelRowsWithin == Len(game_scores') <= MaxLevelRows

NextLevel ==
    \/ \E s \in Sessions : GameGet(s) /\ LevelRowsWithin
    \/ \E s \in Sessions : GamePost(s) /\ LevelRowsWithin

SpecLevel == InitLevel /\ [][NextLevel]_vars

\* the scan route on a new database: the first submission, whose text is any
\* concatenation of at most MaxPieces pieces
PieceWords == {suspicious_words[2], suspicious_words[5], suspicious_words[6]}

Pieces ==
    UNION {{w, Capitalize(w), Upper(w)} : w \in PieceWords}
    \cup { <<" ">>, <<"x">>, <<"B","a","n">>, <<"k">>, <<"b">>, <<"A","N","K">> }

RichEmails == {Concat(ps) : ps \in SeqsUpTo(Pieces, MaxPieces)}

NextScan ==
    \E s \in {"s1"} :
        /\ scans = <<>>
        /\ HomePost(s, RichEmails)

SpecScan == Init /\ [][NextScan]_vars

\* clean_text alone, on every string over NormAlphabet up to MaxLen
InitNorm == AppInit /\ NormInit

NextNorm ==
    \/ CleanOnce /\ UNCHANGED appVars
    \/ CleanTwice /\ UNCHANGED appVars

SpecNorm == InitNorm /\ [][NextNorm]_vars

---------------------------------------------------------------------------
(* What the last step was, read from the request it recorded *)

NoCounters == [score |-> 0, total |-> 0]

\* the counters a request of browser s starts from
CountersOf(s) == IF "score" \in DOMAIN session[s] THEN session[s] ELSE NoCounters

GamePageSent(l) == l.route = "game" /\ l.status = 200
GameGetSent(l) == GamePageSent(l) /\ l.method = "GET"
GamePostSent(l) == GamePageSent(l) /\ l.method = "POST"
GamePostLacking(l) ==
    l.route = "game" /\ l.method = "POST" /\ ~(GameFields \subseteq DOMAIN l.form)
HomePostReceived(l) == l.route = "home" /\ l.method = "POST"
HomePostLacking(l) == HomePostReceived(l) /\ "email" \notin DOMAIN l.form
HomePostWith(l) == HomePostReceived(l) /\ "email" \in DOMAIN l.form

Hit(form) == IF form["choice"] = form["correct"] THEN 1 ELSE 0

---------------------------------------------------------------------------
(* C1 *)

\* C1: in every session whose counters are defined, 0 <= score <= total,
\* after any sequence of game GETs, POSTs (any form) and resets.
C1_ScoreWithinTotal ==
    \A s \in Sessions :
        "score" \in DOMAIN session[s] =>
            /\ "total" \in DOMAIN session[s]
            /\ 0 <= session[s]["score"]
            /\ session[s]["score"] <= session[s]["total"]

\* a wrong answer was graded after a right one: 0 < score < total
C1_Witness ==
    /\ GamePostSent(last)
    /\ Hit(last.form) = 0
    /\ session[last.s] = [score |-> 1, total |-> 2]

---------------------------------------------------------------------------
(* C2 *)

\* C2: /reset-game leaves the session empty, and the next game request of
\* that browser starts from 0,0: a GET shows and records 0, 0, Beginner; a
\* graded POST ends with total = 1 and score 1 for a hit, 0 otherwise.
C2_ResetStartsFromZero ==
    /\ [](\A s \in Sessions : cleared[s] => session[s] = EmptySession)
    /\ [][\A s \in Sessions :
            (cleared[s] /\ last'.s = s /\ GamePageSent(last')) =>
                /\ Len(game_scores') = Len(game_scores) + 1
                /\ last'.method = "GET" =>
                    /\ session'[s] = NoCounters
                    /\ last'.score = 0 /\ last'.total = 0
                    /\ last'.level = "Beginner"
                    /\ game_scores'[Len(game_scores')].row =
                          [score |-> 0, total |-> 0, level |-> "Beginner"]
                /\ last'.method = "POST" =>
                    /\ session'[s] = [score |-> Hit(last'.form), total |-> 1]
                    /\ last'.score = Hit(last'.form) /\ last'.total = 1
                    /\ game_scores'[Len(game_scores')].row =
                          [score |-> Hit(last'.form), total |-> 1,
                           level |-> "Beginner"]
       ]_vars

\* a browser that had answered reset its game and then loaded the game page
C2_Witness ==
    /\ GameGetSent(last)
    /\ session[last.s] = NoCounters
    /\ Len(game_scores) = 2
    /\ game_scores[1].row.total = 1
    /\ game_scores[2].row.total = 0

---------------------------------------------------------------------------
(* C3 *)

EmailsOf(rows) == [i \in 1..Len(rows) |-> rows[i].email]

\* C3: table scans holds one row per POST to "/" that carried an email
\* field, with the submitted text as it was sent; the history listing is
\* those rows in reverse submission order; only such a POST changes the
\* table, and it appends exactly one row.
C3_ScansAppendOnly ==
    /\ [](/\ Len(scans) = Len(submitted)
          /\ \A i \in 1..Len(scans) : scans[i].row.email = submitted[i]
          /\ EmailsOf(OrderByIdDesc(Range(scans))) = Reverse(submitted)
          /\ last.route = "history" => EmailsOf(last.scans) = Reverse(submitted))
    /\ [][IF HomePostWith(last')
          THEN /\ Len(scans') = Len(scans) + 1
               /\ SubSeq(scans', 1, Len(scans)) = scans
               /\ scans'[Len(scans')].row.email = last'.form["email"]
          ELSE scans' = scans
       ]_vars

\* two different texts were submitted and the history was then listed
C3_Witness ==
    /\ last.route = "history"
    /\ Len(submitted) = 2
    /\ submitted[1] # submitted[2]
    /\ submitted[2] # clean_text(submitted[2])
    /\ EmailsOf(last.scans) = <<submitted[2], submitted[1]>>

---------------------------------------------------------------------------
(* C4 *)

\* C4: every game request answered with the page appends exactly one row
\* to game_scores, holding the session's counters at the end of the request
\* and the level of that score; a GET leaves the counters as they were (0,0
\* for a session that had none).
C4_OneSnapshotPerRequest ==
    [][GamePageSent(last') =>
          /\ Len(game_scores') = Len(game_scores) + 1
          /\ SubSeq(game_scores', 1, Len(game_scores)) = game_scores
          /\ game_scores'[Len(game_scores')].row =
                [score |-> session'[last'.s]["score"],
                 total |-> session'[last'.s]["total"],
                 level |-> Level(session'[last'.s]["score"])]
          /\ last'.method = "GET" => session'[last'.s] = CountersOf(last'.s)
      ]_vars

\* a GET after a graded POST wrote the same snapshot again
C4_Witness ==
    /\ GameGetSent(last)
    /\ Len(game_scores) = 2
    /\ game_scores[1].row = game_scores[2].row
    /\ game_scores[2].row.total = 1
    /\ session[last.s]["total"] = 1

---------------------------------------------------------------------------
(* C5 *)

LevelIs(score, level) ==
    /\ score < 3 => level = "Beginner"
    /\ (3 <= score /\ score < 6) => level = "Intermediate"
    /\ score >= 6 => level = "Expert"

\* C5: the level on the game page and the level stored in
\* game_scores are Beginner for score < 3, Intermediate for 3 <= score < 6
\* and Expert for score >= 6, whatever total is.
C5_LevelFromScore ==
    /\ \A i \in 1..Len(game_scores) :
          LevelIs(game_scores[i].row.score, game_scores[i].row.level)
    /\ GamePageSent(last) => LevelIs(last.score, last.level)

\* a right answer took a session from score 5 to score 6 with total above it
C5_Witness ==
    /\ GamePostSent(last)
    /\ Hit(last.form) = 1
    /\ last.score = 6 /\ last.total = 7 /\ last.level = "Expert"
    /\ game_scores[Len(game_scores)].row.level = "Expert"

---------------------------------------------------------------------------
(* C6 *)

\* s still holds "http" followed by a non-whitespace character
UrlLeft(s) ==
    \E i \in 1..Len(s) : StartsAt(s, i, Http) /\ NonSpaceRun(s, i + 4) >= 1

\* C6 as stated: clean_text(clean_text(s)) = clean_text(s) for every s.
C6_Idempotent == stage = "twice" => twice = once

\* C6 as amended: clean_text(clean_text(s)) = clean_text(s) for every s
\* whose cleaned text holds no "http" followed by a non-whitespace character.
C6_IdempotentWithoutUrl ==
    (stage = "twice" /\ ~UrlLeft(once)) => twice = once

\* an input that cleaning changed, that held a URL, and whose cleaned text
\* is not empty and holds no URL
C6_Witness ==
    /\ stage = "twice"
    /\ UrlLeft(Lower(arg))
    /\ once # <<>> /\ once # arg
    /\ ~UrlLeft(once)

---------------------------------------------------------------------------
(* C7 *)

\* C7 as stated: a POST to "/" without an email field is handled like one
\* with email = "": it is answered with the page, and a row with the empty
\* text is inserted.
C7_MissingEmailAsEmpty ==
    HomePostLacking(last) =>
        /\ last.status = 200
        /\ scans # <<>>
        /\ scans[Len(scans)].row.email = <<>>

\* C7 as amended: a POST to "/" without an email field is refused with a
\* request error and no row is inserted; a POST with email = "" is cleaned
\* to the empty text, classified, and exactly one row with the empty text
\* is inserted.
C7_MissingEmailRefused ==
    [][/\ HomePostLacking(last') =>
            /\ last'.status = 400
            /\ scans' = scans
       /\ (HomePostWith(last') /\ last'.form["email"] = <<>>) =>
            /\ last'.status = 200
            /\ last'.cleaned = <<>>
            /\ last'.result \in Labels
            /\ scans' = Append(scans,
                  [id |-> Len(scans) + 1,
                   row |-> [email |-> <<>>, result |-> last'.result,
                            confidence |-> last'.confidence]])
      ]_vars

\* a POST without an email field arrived when the table already held a row
C7_Witness ==
    /\ HomePostLacking(last)
    /\ last.status = 400
    /\ Len(scans) = 1
    /\ scans[1].row.email = <<>>

---------------------------------------------------------------------------
(* C8 *)

\* the lower-case and the capitalised form of every suspicious word
SuspiciousForms ==
    UNION {{suspicious_words[k], Capitalize(suspicious_words[k])} :
              k \in DOMAIN suspicious_words}

\* the forms that occur in s at position i
FormsAt(s, i) == {f \in SuspiciousForms : StartsAt(s, i, f)}

FormAt(s, i) == CHOOSE f \in FormsAt(s, i) : TRUE

\* the text from position i on, read once from left to right, with every
\* occurrence of a form wrapped
RECURSIVE MarkedFrom(_, _)
MarkedFrom(s, i) ==
    IF i > Len(s) THEN <<>>
    ELSE IF FormsAt(s, i) # {}
         THEN Wrap(FormAt(s, i)) \o MarkedFrom(s, i + Len(FormAt(s, i)))
         ELSE <<s[i]>> \o MarkedFrom(s, i + 1)

\* C8: for a FRAUD result the highlighted text is the submitted text with
\* each occurrence of a suspicious word in lower-case or capitalised form
\* wrapped once and everything else, other casings included, left as it is;
\* for a SAFE result it is the submitted text.
C8_HighlightForms ==
    (HomePostReceived(last) /\ last.status = 200) =>
        last.highlighted_text =
            IF last.result = "FRAUD" THEN MarkedFrom(last.email_text, 1)
            ELSE last.email_text

\* a FRAUD text with a capitalised word and an upper-case word: the first
\* is wrapped, the second is not
C8_Witness ==
    /\ HomePostReceived(last) /\ last.status = 200
    /\ last.result = "FRAUD"
    /\ last.email_text = Capitalize(suspicious_words[2]) \o Upper(suspicious_words[2])
    /\ last.highlighted_text =
          Wrap(Capitalize(suspicious_words[2])) \o Upper(suspicious_words[2])

---------------------------------------------------------------------------
(* C9 *)

\* C9: a graded POST adds 1 to total and adds 1 to score exactly when
\* choice = correct; a GET changes neither; so total is the number of
\* graded POSTs since the session was last empty and score the number of
\* those with choice = correct.
C9_GradedByForm ==
    /\ [](\A s \in Sessions :
            /\ "score" \in DOMAIN session[s] =>
                  /\ session[s]["total"] = posts[s]
                  /\ session[s]["score"] = hits[s]
            /\ "score" \notin DOMAIN session[s] => posts[s] = 0 /\ hits[s] = 0)
    /\ [][/\ GamePostSent(last') =>
               /\ session'[last'.s]["total"] = CountersOf(last'.s)["total"] + 1
               /\ session'[last'.s]["score"] =
                     CountersOf(last'.s)["score"] + Hit(last'.form)
          /\ GameGetSent(last') => session'[last'.s] = CountersOf(last'.s)
       ]_vars

\* two POSTs were graded in one session, a miss and then a hit
C9_Witness ==
    /\ GamePostSent(last)
    /\ posts[last.s] = 2 /\ hits[last.s] = 1
    /\ session[last.s] = [score |-> 1, total |-> 2]
    /\ Hit(last.form) = 1

---------------------------------------------------------------------------
(* C10 *)

\* C10: a POST to /game lacking choice, correct or reason is refused with a
\* request error; it appends no row and leaves the counters of the session
\* as they were (0,0 for a session that had none).
C10_LackingFieldRefused ==
    [][GamePostLacking(last') =>
          /\ last'.status = 400
          /\ game_scores' = game_scores
          /\ session'[last'.s] = CountersOf(last'.s)
      ]_vars

\* a POST lacking only the reason reached a session that had answered
C10_Witness ==
    /\ GamePostLacking(last)
    /\ DOMAIN last.form = {"choice", "correct"}
    /\ last.status = 400
    /\ session[last.s] = [score |-> 1, total |-> 1]
    /\ Len(game_scores) = 1

====
